---- MODULE Spec2Model ----
(***************************************************************************)
(* State-machine model of the per-test transaction context of              *)
(* vitest-environment-prisma-postgres (src/src/index.ts).                  *)
(*                                                                         *)
(* index.ts carries two implementations of the same context: the class    *)
(* PrismaPostgresTestContext (lines 18-155) and the closure                *)
(* createPrismaPostgresTestContext (lines 212-352).  `variant` selects     *)
(* which one a behaviour runs; every action follows the code of the        *)
(* selected one.                                                           *)
(*                                                                         *)
(* The database client is the PrismaClientLike interface of                *)
(* src/src/dts/index.d.ts: $connect, $disconnect, $transaction(fn) and     *)
(* $executeRawUnsafe(sql).  An interactive transaction runs fn(tx), commits*)
(* when the promise fn returned resolves and rolls back when it rejects.   *)
(***************************************************************************)
EXTENDS Integers, Sequences, FiniteSets, TLC

\* ------------------------------------------------------------------ bounds
MaxTx == 2        \* calls of originalClient.$transaction in one behaviour
MaxCalls == 2     \* calls of the nested $transaction emulator
MaxEntries == 2   \* promises in the array handed to an array-form call

Null == 0         \* `null` for transactionClient; the no-op default trigger

TxIds == 1..MaxTx
CallIds == 1..MaxCalls

Variants == {"closure", "class"}

\* Member names code under test may read on the proxy: the nested
\* transaction operation, a method of the handle, a plain data field.
Members == {"$transaction", "$executeRawUnsafe", "meta"}

\* Errors
ErrOutside == "client was accessed outside of an active test transaction"
ErrNestedInactive == "Nested $transaction called without an active test transaction."
ErrAlreadyActive == "beginTestTransaction called while a test transaction is already active"
TypeError == "TypeError"     \* member read on null
DbError == "DbError"         \* a statement the database refused
Boom == "boom"               \* an error raised by a unit of work
NoErr == "none"
ErrNoDatabaseUrl == "no database url defined!"
ErrNoDatabaseUrlExpected == "no DATABASE_URL defined!"

VARIABLES
  variant,                     \* which implementation of index.ts runs
  clientConnected,             \* originalClient: $connect / $disconnect
  connected,                   \* class field `connected` (index.ts:21)
  savePointCounter,            \* index.ts:23 / :213
  transactionClient,           \* index.ts:24 / :220 ; Null or a transaction id
  internalEndTestTransaction,  \* index.ts:25 / :227 ; Null = () => {} , t = the
                               \* closure over rejectTransaction of transaction t
  nBegins,                     \* calls of beginTestTransaction; call k asks the client
                               \* for transaction k
  txState,                     \* per transaction, at the database
  body,                        \* per transaction, the promise testTransactionFn returned
  beginPromise,                \* per transaction, the promise beginTestTransaction returned
  txPromise,                   \* per transaction, the promise $transaction(...).catch(...)
  rows,                        \* per transaction, rows written and not rolled back
  savepoints,                  \* per transaction, stack of [name, snap]
  committed,                   \* rows committed to the database
  written,                     \* history: the transactions a row was written in
  calls,                       \* per nested call, its frame
  nCalls,                      \* nested calls started so far
  emulatorRef,                 \* code under test holds the function client.$transaction returned
  realNested,                  \* nested calls that reached originalClient.$transaction
  cycleActive,                 \* history: a begin has resolved and no end was called since
  envPhase,                    \* where environment.setup / its teardown stands; "off"
                               \* when the context is used without the environment
  optionsDatabaseUrl,          \* options.databaseUrl is set
  envDatabaseUrl,              \* process.env.DATABASE_URL is set
  envError,                    \* the error environment.setup rejected with
  constructed,                 \* the Prisma client has been constructed
  published,                   \* member names of global.prismaPostgresTestContext
  nodeSetupCalls,              \* calls of builtinEnvironments.node.setup
  disconnectCalls,             \* calls of ctx.teardown() by the returned teardown
  nodeTeardownCalls            \* calls of nodeEnvironmentTeardown

vars == << variant, clientConnected, connected, savePointCounter, transactionClient,
           internalEndTestTransaction, nBegins, txState, body, beginPromise, txPromise,
           rows, savepoints, committed, written, calls, nCalls,
           emulatorRef, realNested, cycleActive, envPhase, optionsDatabaseUrl,
           envDatabaseUrl, envError, constructed, published, nodeSetupCalls,
           disconnectCalls, nodeTeardownCalls >>

ctxVars == << savePointCounter, transactionClient, internalEndTestTransaction >>
connVars == << clientConnected, connected >>
txVars == << nBegins, txState, body, beginPromise, txPromise >>
dbVars == << rows, savepoints, committed, written >>
callVars == << calls, nCalls, emulatorRef, realNested >>
envVars == << envPhase, optionsDatabaseUrl, envDatabaseUrl, envError, constructed,
              published, nodeSetupCalls, disconnectCalls, nodeTeardownCalls >>

\* The two forms of arg: a unit-of-work function, an array of promises.
Args == {"callback", "array"}

\* A promise of the array that has not settled; a settled one carries
\* "fulfilled" or "rejected" and its place in the order of settling.
PendingEntry == [st |-> "pending", at |-> 0]

IdleCall == [pc |-> "idle", name |-> 0, handle |-> Null, uowHandle |-> Null,
             parent |-> 0, stmts |-> << >>, pending |-> NoErr,
             uow |-> NoErr, out |-> NoErr,
             form |-> "callback", entries |-> << >>, results |-> << >>,
             wrote |-> FALSE]

\* The frame of a call entered with arg.
NewCall(arg) ==
  [IdleCall EXCEPT !.form = arg,
                   !.entries = IF arg = "array"
                                 THEN [i \in 1..MaxEntries |-> PendingEntry]
                                 ELSE << >>]

\* The context after construction, with either implementation.
ContextInit ==
  /\ variant \in Variants
  /\ clientConnected = FALSE
  /\ connected = FALSE
  /\ savePointCounter = 0
  /\ transactionClient = Null
  /\ internalEndTestTransaction = Null
  /\ nBegins = 0
  /\ txState = [t \in TxIds |-> "none"]
  /\ body = [t \in TxIds |-> "none"]
  /\ beginPromise = [t \in TxIds |-> "none"]
  /\ txPromise = [t \in TxIds |-> "none"]
  /\ rows = [t \in TxIds |-> {}]
  /\ savepoints = [t \in TxIds |-> << >>]
  /\ committed = {}
  /\ written = {}
  /\ calls = [c \in CallIds |-> IdleCall]
  /\ nCalls = 0
  /\ emulatorRef = FALSE
  /\ realNested = 0
  /\ cycleActive = FALSE

\* The context constructed and used directly, as contest.test.ts does: the
\* environment is not involved.
Init ==
  /\ ContextInit
  /\ envPhase = "off"
  /\ optionsDatabaseUrl = TRUE
  /\ envDatabaseUrl = FALSE
  /\ envError = NoErr
  /\ constructed = TRUE
  /\ published = {}
  /\ nodeSetupCalls = 0
  /\ disconnectCalls = 0
  /\ nodeTeardownCalls = 0

\* --------------------------------------------------------- database client

\* Index of the most recent savepoint called n on a stack (0 when none).
SpIndex(stack, n) ==
  LET S == {i \in DOMAIN stack : stack[i].name = n}
  IN IF S = {} THEN 0 ELSE CHOOSE i \in S : \A j \in S : j <= i

\* $executeRawUnsafe(sql) on transaction t: the new rows and savepoint stack
\* of t and whether the database accepted the statement.  A transaction
\* that is not open refuses every statement; RELEASE and ROLLBACK TO need
\* the savepoint to exist; RELEASE drops it and every later one, ROLLBACK TO
\* restores its snapshot and drops every later one.
ExecuteRawUnsafe(t, kind, n) ==
  LET stack == savepoints[t]
      i == SpIndex(stack, n)
      same == [rows |-> rows[t], sps |-> stack, ok |-> FALSE]
  IN IF txState[t] # "open" THEN same
     ELSE IF kind = "SAVEPOINT"
       THEN [rows |-> rows[t],
             sps |-> Append(stack, [name |-> n, snap |-> rows[t]]),
             ok |-> TRUE]
     ELSE IF i = 0 THEN same
     ELSE IF kind = "RELEASE SAVEPOINT"
       THEN [rows |-> rows[t], sps |-> SubSeq(stack, 1, i - 1), ok |-> TRUE]
     ELSE [rows |-> stack[i].snap, sps |-> SubSeq(stack, 1, i), ok |-> TRUE]

\* The database executes one raw statement issued on handle t.
Issue(t, kind, n) ==
  LET r == ExecuteRawUnsafe(t, kind, n)
  IN /\ rows' = [rows EXCEPT ![t] = r.rows]
     /\ savepoints' = [savepoints EXCEPT ![t] = r.sps]
     /\ UNCHANGED << committed, written >>

\* A write (tx.user.create(...)) on handle t by writer w (0: the test, c:
\* the unit of work of nested call c); the row carries the transaction and
\* the writer.  A transaction that is not open refuses it.
WriteRow(t, w) ==
  /\ IF txState[t] = "open"
       THEN /\ rows' = [rows EXCEPT ![t] = @ \cup {<< t, w >>}]
            /\ written' = written \cup {t}
       ELSE UNCHANGED << rows, written >>
  /\ UNCHANGED << savepoints, committed >>

\* What a query on handle t reads: committed data and t's own writes.
Visible(t) == committed \cup rows[t]

\* ------------------------------------------------------ transaction context

\* setup: () => originalClient.$connect()   /  init()
setup ==
  /\ clientConnected' = TRUE
  /\ connected' = IF variant = "class" THEN TRUE ELSE connected
  /\ UNCHANGED << variant, envVars, ctxVars, txVars, dbVars, callVars, cycleActive >>

\* teardown: () => originalClient.$disconnect()
teardown ==
  /\ clientConnected' = FALSE
  /\ UNCHANGED << variant, envVars, connected, ctxVars, txVars, dbVars, callVars, cycleActive >>

\* beginTestTransaction up to the call of originalClient.$transaction: the
\* class connects first when its `connected` flag is unset; neither
\* implementation looks at transactionClient.  The returned promise is
\* pending; the client has been asked to open transaction nBegins + 1.
beginTestTransaction ==
  /\ nBegins < MaxTx
  /\ LET t == nBegins + 1
     IN /\ nBegins' = t
        /\ txState' = [txState EXCEPT ![t] = "opening"]
        /\ beginPromise' = [beginPromise EXCEPT ![t] = "pending"]
        /\ txPromise' = [txPromise EXCEPT ![t] = "pending"]
        /\ UNCHANGED body
  /\ IF variant = "class" /\ ~connected
       THEN clientConnected' = TRUE /\ connected' = TRUE
       ELSE UNCHANGED connVars
  /\ UNCHANGED << variant, envVars, ctxVars, dbVars, callVars, cycleActive >>

\* testTransactionFn with the assignment of the handle left out: the begin
\* promise resolves while transactionClient is what it was.
testTransactionFn_NoHandle(t) ==
  /\ UNCHANGED transactionClient
  /\ beginPromise' = [beginPromise EXCEPT ![t] = "resolved"]
  /\ body' = [body EXCEPT ![t] = "pending"]
  /\ internalEndTestTransaction' = t

\* testTransactionFn returning a promise that is already resolved.
testTransactionFn_Resolves(t) ==
  /\ transactionClient' = t
  /\ beginPromise' = [beginPromise EXCEPT ![t] = "resolved"]
  /\ body' = [body EXCEPT ![t] = "resolved"]
  /\ internalEndTestTransaction' = t

\* testTransactionFn storing the handle but leaving the end trigger of the
\* transaction before it in place.
testTransactionFn_StaleTrigger(t) ==
  /\ transactionClient' = t
  /\ beginPromise' = [beginPromise EXCEPT ![t] = "resolved"]
  /\ body' = [body EXCEPT ![t] = "pending"]
  /\ internalEndTestTransaction' =
       IF internalEndTestTransaction = Null THEN t ELSE internalEndTestTransaction

\* testTransactionFn(tx): runs when the client has opened transaction t.
\* One synchronous block: the handle becomes active, the begin promise
\* resolves, the end trigger is replaced by the closure over t's reject.
testTransactionFn(t) ==
  /\ transactionClient' = t
  /\ beginPromise' = [beginPromise EXCEPT ![t] = "resolved"]
  /\ body' = [body EXCEPT ![t] = "pending"]
  /\ internalEndTestTransaction' = t

\* The client opens transaction t and invokes the callback with its handle.
ClientOpen(t) ==
  /\ txState[t] = "opening"
  /\ txState' = [txState EXCEPT ![t] = "open"]
  /\ testTransactionFn(t)
  /\ cycleActive' = TRUE
  /\ UNCHANGED << variant, envVars, connVars, savePointCounter, nBegins, txPromise, dbVars,
                  callVars >>

\* The promise of $transaction(...) rejecting with no handler attached.
SwallowTransactionError_Missing(t) ==
  txPromise' = [txPromise EXCEPT ![t] = "unhandled"]

\* .catch(() => true) on the promise $transaction returned for transaction
\* t: the rejection is handled there and goes no further.
SwallowTransactionError(t) ==
  txPromise' = [txPromise EXCEPT ![t] = "caught"]

\* The client fails to open transaction t: $transaction rejects without
\* invoking the callback; .catch(() => true) absorbs the rejection.
ClientOpenFail(t) ==
  /\ txState[t] = "opening"
  /\ txState' = [txState EXCEPT ![t] = "failed"]
  /\ SwallowTransactionError(t)
  /\ UNCHANGED << variant, envVars, connVars, ctxVars, nBegins, body, beginPromise, dbVars,
                  callVars, cycleActive >>

\* The end trigger calling _commitTransaction in place of rejectTransaction.
TriggerTransactionEnd_Commit(t) ==
  /\ body' = [body EXCEPT ![t] = IF @ = "pending" THEN "resolved" ELSE @]
  /\ transactionClient' = Null

\* The end trigger without `transactionClient = null`.
TriggerTransactionEnd_KeepHandle(t) ==
  /\ body' = [body EXCEPT ![t] = IF @ = "pending" THEN "rejected" ELSE @]
  /\ UNCHANGED transactionClient

\* The closure stored in internalEndTestTransaction for transaction t:
\* rejectTransaction(); transactionClient = null.  Rejecting a promise that
\* is already settled changes nothing.
TriggerTransactionEnd(t) ==
  /\ body' = [body EXCEPT ![t] = IF @ = "pending" THEN "rejected" ELSE @]
  /\ transactionClient' = Null

\* endTestTransaction also disconnecting the client.
endTestTransaction_Disconnect ==
  /\ IF internalEndTestTransaction = Null
       THEN UNCHANGED << body, transactionClient >>
       ELSE TriggerTransactionEnd(internalEndTestTransaction)
  /\ clientConnected' = FALSE
  /\ cycleActive' = FALSE
  /\ UNCHANGED << variant, envVars, connected, savePointCounter, internalEndTestTransaction,
                  nBegins, txState, beginPromise, txPromise, dbVars, callVars >>

\* endTestTransaction closing the connection after the trigger has run.
endTestTransaction_DropConnection ==
  /\ IF internalEndTestTransaction = Null
       THEN UNCHANGED << body, transactionClient >>
       ELSE TriggerTransactionEnd(internalEndTestTransaction)
  /\ clientConnected' = (internalEndTestTransaction = Null /\ clientConnected)
  /\ cycleActive' = FALSE
  /\ UNCHANGED << variant, envVars, connected, savePointCounter, internalEndTestTransaction,
                  nBegins, txState, beginPromise, txPromise, dbVars, callVars >>

\* endTestTransaction returning without calling the stored trigger.
endTestTransaction_NoTrigger ==
  /\ cycleActive' = FALSE
  /\ UNCHANGED << variant, envVars, connVars, ctxVars, nBegins, txState, body, beginPromise,
                  txPromise, dbVars, callVars >>

\* endTestTransaction: () => internalEndTestTransaction()
endTestTransaction ==
  /\ IF internalEndTestTransaction = Null
       THEN UNCHANGED << body, transactionClient >>
       ELSE TriggerTransactionEnd(internalEndTestTransaction)
  /\ cycleActive' = FALSE
  /\ UNCHANGED << variant, envVars, connVars, savePointCounter, internalEndTestTransaction,
                  nBegins, txState, beginPromise, txPromise, dbVars, callVars >>

\* The client settles transaction t once the body has settled: commit when
\* it resolved, rollback when it rejected; the rejection of $transaction is
\* absorbed by .catch(() => true).
ClientSettle(t) ==
  /\ txState[t] = "open"
  /\ body[t] \in {"rejected", "resolved"}
  /\ IF body[t] = "resolved"
       THEN /\ txState' = [txState EXCEPT ![t] = "committed"]
            /\ committed' = committed \cup rows[t]
            /\ txPromise' = [txPromise EXCEPT ![t] = "resolved"]
       ELSE /\ txState' = [txState EXCEPT ![t] = "rolledback"]
            /\ committed' = committed
            /\ SwallowTransactionError(t)
  /\ rows' = [rows EXCEPT ![t] = {}]
  /\ savepoints' = [savepoints EXCEPT ![t] = << >>]
  /\ UNCHANGED written
  /\ UNCHANGED << variant, envVars, connVars, ctxVars, nBegins, body, beginPromise,
                  callVars, cycleActive >>

\* ------------------------------------------------------------------ proxy

\* The get trap with the $transaction test placed before the guard.
ProxyGet_UnguardedTransaction(name) ==
  IF name = "$transaction" THEN [kind |-> "emulator", err |-> NoErr, target |-> Null]
  ELSE IF transactionClient = Null
    THEN [kind |-> "throw", err |-> ErrOutside, target |-> Null]
  ELSE IF name = "meta" THEN [kind |-> "value", err |-> NoErr, target |-> transactionClient]
  ELSE [kind |-> "bound", err |-> NoErr, target |-> transactionClient]

\* The get trap without the $transaction interception: the handle's own
\* $transaction is returned, bound, like any other method.
ProxyGet_NoInterception(name) ==
  IF transactionClient = Null THEN [kind |-> "throw", err |-> ErrOutside, target |-> Null]
  ELSE IF name = "meta" THEN [kind |-> "value", err |-> NoErr, target |-> transactionClient]
  ELSE [kind |-> "bound", err |-> NoErr, target |-> transactionClient]

\* The get trap resolving members against the handle of the first outer
\* transaction, as a proxy built around that handle would.
ProxyGet_FirstHandle(name) ==
  IF transactionClient = Null THEN [kind |-> "throw", err |-> ErrOutside, target |-> Null]
  ELSE IF name = "$transaction" THEN [kind |-> "emulator", err |-> NoErr, target |-> Null]
  ELSE IF name = "meta" THEN [kind |-> "value", err |-> NoErr, target |-> 1]
  ELSE [kind |-> "bound", err |-> NoErr, target |-> 1]

\* The get trap returning every member as it is stored on the handle,
\* functions unbound.
ProxyGet_Unbound(name) ==
  IF transactionClient = Null THEN [kind |-> "throw", err |-> ErrOutside, target |-> Null]
  ELSE IF name = "$transaction" THEN [kind |-> "emulator", err |-> NoErr, target |-> Null]
  ELSE [kind |-> "value", err |-> NoErr, target |-> transactionClient]

\* The get trap of the proxy client for member `name`: what the access
\* yields.  "emulator" is fakeInnerTransactionMethod, "bound" a method of
\* the active handle bound to it, "value" a field of the active handle.
ProxyGet(name) ==
  IF transactionClient = Null THEN [kind |-> "throw", err |-> ErrOutside, target |-> Null]
  ELSE IF name = "$transaction" THEN [kind |-> "emulator", err |-> NoErr, target |-> Null]
  ELSE IF name = "meta" THEN [kind |-> "value", err |-> NoErr, target |-> transactionClient]
  ELSE [kind |-> "bound", err |-> NoErr, target |-> transactionClient]

\* Code under test writes a row through the proxy (client.user.create(...)).
ProxyWrite ==
  /\ LET g == ProxyGet("$executeRawUnsafe")
     IN IF g.kind = "throw"
          THEN UNCHANGED dbVars
          ELSE WriteRow(g.target, 0)
  /\ UNCHANGED << variant, envVars, connVars, ctxVars, txVars, callVars, cycleActive >>

\* ------------------------------------------------------ savepoint emulator

\* The handle a statement of the emulator is issued on after an await: the
\* closure reads the shared variable transactionClient again (index.ts:264,
\* 268, 271); the class reads the constant it captured on entry
\* (index.ts:134).
HandleNow(c) == IF variant = "closure" THEN transactionClient ELSE calls[c].handle

Children(c) == {d \in CallIds : calls[d].pc # "idle" /\ calls[d].parent = c}

\* The calls whose unit-of-work function is running.
Running == {c \in CallIds : calls[c].pc = "running" /\ calls[c].form = "callback"}

\* The record of a statement as call c issued it.
Stmt(t, kind, n) ==
  [tx |-> t, kind |-> kind, name |-> n, ok |-> ExecuteRawUnsafe(t, kind, n).ok]

\* Whether the database accepted the statement call c is waiting for.
StmtOk(c) == calls[c].stmts[Len(calls[c].stmts)].ok

\* fakeInnerTransactionMethod reading the counter without incrementing it.
fakeInnerTransactionMethod_NoIncrement(c, p, arg) ==
  IF transactionClient = Null
    THEN /\ calls' = [calls EXCEPT ![c] = [IdleCall EXCEPT !.pc = "done", !.parent = p,
                                                        !.form = arg,
                                                        !.out = ErrNestedInactive]]
         /\ UNCHANGED << savePointCounter, dbVars >>
    ELSE /\ savePointCounter' = savePointCounter
         /\ Issue(transactionClient, "SAVEPOINT", savePointCounter + 1)
         /\ calls' = [calls EXCEPT ![c] =
               [NewCall(arg) EXCEPT !.pc = "awaitSavepoint", !.parent = p,
                                !.name = savePointCounter + 1,
                                !.handle = transactionClient,
                                !.stmts = << Stmt(transactionClient, "SAVEPOINT",
                                                  savePointCounter + 1) >>]]

\* fakeInnerTransactionMethod allocating the savepoint name before it looks
\* at transactionClient.
fakeInnerTransactionMethod_CountFirst(c, p, arg) ==
  IF transactionClient = Null
    THEN /\ savePointCounter' = savePointCounter + 1
         /\ calls' = [calls EXCEPT ![c] = [IdleCall EXCEPT !.pc = "done", !.parent = p,
                                                        !.form = arg,
                                                        !.out = ErrNestedInactive]]
         /\ UNCHANGED dbVars
    ELSE /\ savePointCounter' = savePointCounter + 1
         /\ Issue(transactionClient, "SAVEPOINT", savePointCounter + 1)
         /\ calls' = [calls EXCEPT ![c] =
               [NewCall(arg) EXCEPT !.pc = "awaitSavepoint", !.parent = p,
                                !.name = savePointCounter + 1,
                                !.handle = transactionClient,
                                !.stmts = << Stmt(transactionClient, "SAVEPOINT",
                                                  savePointCounter + 1) >>]]

\* fakeInnerTransactionMethod(arg), from entry to its first await: the
\* guard, the allocation of the savepoint name, the SAVEPOINT statement.
\* c is the frame of the call, p the call whose unit of work made it (0 for
\* a call made by the test itself).
fakeInnerTransactionMethod(c, p, arg) ==
  IF transactionClient = Null
    THEN /\ calls' = [calls EXCEPT ![c] = [IdleCall EXCEPT !.pc = "done", !.parent = p,
                                                        !.form = arg,
                                                        !.out = ErrNestedInactive]]
         /\ UNCHANGED << savePointCounter, dbVars >>
    ELSE /\ savePointCounter' = savePointCounter + 1
         /\ Issue(transactionClient, "SAVEPOINT", savePointCounter + 1)
         /\ calls' = [calls EXCEPT ![c] =
               [NewCall(arg) EXCEPT !.pc = "awaitSavepoint", !.parent = p,
                                !.name = savePointCounter + 1,
                                !.handle = transactionClient,
                                !.stmts = << Stmt(transactionClient, "SAVEPOINT",
                                                  savePointCounter + 1) >>]]

\* Code under test evaluates client.$transaction(arg) on the proxy: the get
\* trap decides what is called.
ProxyTransaction(p, arg) ==
  /\ nCalls < MaxCalls
  /\ LET g == ProxyGet("$transaction")
         c == nCalls + 1
     IN IF g.kind = "throw"
          THEN UNCHANGED << savePointCounter, dbVars, callVars >>
        ELSE IF g.kind = "emulator"
          THEN /\ fakeInnerTransactionMethod(c, p, arg)
               /\ nCalls' = c
               /\ emulatorRef' = TRUE
               /\ UNCHANGED realNested
        ELSE /\ realNested' = realNested + 1
             /\ UNCHANGED << savePointCounter, dbVars, calls, nCalls, emulatorRef >>
  /\ UNCHANGED << variant, envVars, connVars, transactionClient, internalEndTestTransaction,
                  txVars, cycleActive >>

\* Code under test calls a function it read from client.$transaction
\* earlier, without going through the get trap again.
RetainedCall(p, arg) ==
  /\ nCalls < MaxCalls
  /\ emulatorRef
  /\ fakeInnerTransactionMethod(nCalls + 1, p, arg)
  /\ nCalls' = nCalls + 1
  /\ UNCHANGED << variant, envVars, connVars, transactionClient, internalEndTestTransaction,
                  txVars, emulatorRef, realNested, cycleActive >>

\* The catch block naming the savepoint after the current value of the
\* counter in place of the name the call allocated.
CatchBlock_CounterName(c, err, frames) ==
  IF HandleNow(c) = Null
    THEN /\ calls' = [frames EXCEPT ![c].pc = "done", ![c].out = TypeError]
         /\ UNCHANGED dbVars
    ELSE /\ Issue(HandleNow(c), "ROLLBACK TO SAVEPOINT", savePointCounter)
         /\ calls' = [frames EXCEPT ![c].pc = "awaitRollback", ![c].pending = err,
                        ![c].stmts = Append(@, Stmt(HandleNow(c), "ROLLBACK TO SAVEPOINT",
                                                    savePointCounter))]

\* The catch block of call c for error err, frames being the call frames on
\* entry: ROLLBACK TO SAVEPOINT on the handle, then `throw err`.  Reading
\* $executeRawUnsafe on null raises a TypeError in place of err.
CatchBlock(c, err, frames) ==
  IF HandleNow(c) = Null
    THEN /\ calls' = [frames EXCEPT ![c].pc = "done", ![c].out = TypeError]
         /\ UNCHANGED dbVars
    ELSE /\ Issue(HandleNow(c), "ROLLBACK TO SAVEPOINT", calls[c].name)
         /\ calls' = [frames EXCEPT ![c].pc = "awaitRollback", ![c].pending = err,
                        ![c].stmts = Append(@, Stmt(HandleNow(c), "ROLLBACK TO SAVEPOINT",
                                                    calls[c].name))]

\* The try block of call c after `await run()` returned a value: RELEASE
\* SAVEPOINT on the handle; the TypeError of a null handle is raised inside
\* the try and caught by the catch block.
TryRelease(c, frames) ==
  IF HandleNow(c) = Null
    THEN CatchBlock(c, TypeError, frames)
    ELSE /\ Issue(HandleNow(c), "RELEASE SAVEPOINT", calls[c].name)
         /\ calls' = [frames EXCEPT ![c].pc = "awaitRelease",
                        ![c].stmts = Append(@, Stmt(HandleNow(c), "RELEASE SAVEPOINT",
                                                    calls[c].name))]

\* The SAVEPOINT statement has been answered: a refusal leaves the function
\* (the await is outside the try); otherwise run() hands the unit of work
\* the handle.
AfterSavepoint(c) ==
  /\ calls[c].pc = "awaitSavepoint"
  /\ IF StmtOk(c)
       THEN calls' = [calls EXCEPT ![c].pc = "running", ![c].uowHandle = HandleNow(c)]
       ELSE calls' = [calls EXCEPT ![c].pc = "done", ![c].out = DbError]
  /\ UNCHANGED << variant, envVars, connVars, ctxVars, txVars, dbVars, nCalls, emulatorRef,
                  realNested, cycleActive >>

\* The unit of work writes a row through the handle it was given.
UowWrite(c) ==
  /\ calls[c].pc = "running"
  /\ calls[c].form = "callback"
  /\ calls[c].uowHandle # Null
  /\ WriteRow(calls[c].uowHandle, c)
  /\ calls' = [calls EXCEPT ![c].wrote = @ \/ txState[calls[c].uowHandle] = "open"]
  /\ UNCHANGED << variant, envVars, connVars, ctxVars, txVars, nCalls, emulatorRef,
                  realNested, cycleActive >>

\* The unit of work settles with r (a value or an error) once the nested
\* calls it awaits have returned; the emulator continues after `await run()`.
UowSettle(c, r) ==
  /\ calls[c].pc = "running"
  /\ calls[c].form = "callback"
  /\ \A d \in Children(c) : calls[d].pc = "done"
  /\ IF r = Boom
       THEN CatchBlock(c, Boom, [calls EXCEPT ![c].uow = r])
       ELSE TryRelease(c, [calls EXCEPT ![c].uow = r])
  /\ UNCHANGED << variant, envVars, connVars, ctxVars, txVars, nCalls, emulatorRef, realNested,
                  cycleActive >>

\* What promise i of the array fulfils with, what it rejects with.
EntryValue(i) == i
EntryError(i) == "entry " \o ToString(i) \o " rejected"

\* The entries that have settled, the one that rejected first.
Settled(es) == {i \in DOMAIN es : es[i].st # "pending"}
Rejected(es) == {i \in DOMAIN es : es[i].st = "rejected"}
FirstRejected(es) ==
  CHOOSE i \in Rejected(es) : \A j \in Rejected(es) : es[i].at <= es[j].at

\* Promise.all collecting the values in the order the promises fulfilled.
PromiseAll_SettleOrder(es) ==
  IF Rejected(es) # {}
    THEN [st |-> "rejected", err |-> EntryError(FirstRejected(es)), values |-> << >>]
  ELSE IF Settled(es) = DOMAIN es
    THEN [st |-> "fulfilled", err |-> NoErr,
          values |-> [k \in DOMAIN es |->
                        EntryValue(CHOOSE i \in DOMAIN es : es[i].at = k)]]
  ELSE [st |-> "pending", err |-> NoErr, values |-> << >>]

\* Promise.all(arg): rejected as soon as one promise has rejected, with the
\* reason of the first to reject; fulfilled when every promise has
\* fulfilled, with the values in the order of the array; pending otherwise.
PromiseAll(es) ==
  IF Rejected(es) # {}
    THEN [st |-> "rejected", err |-> EntryError(FirstRejected(es)), values |-> << >>]
  ELSE IF Settled(es) = DOMAIN es
    THEN [st |-> "fulfilled", err |-> NoErr,
          values |-> [i \in DOMAIN es |-> EntryValue(i)]]
  ELSE [st |-> "pending", err |-> NoErr, values |-> << >>]

\* Promise i of the array handed to call c settles while run() is awaited.
EntrySettle(c, i, st) ==
  /\ calls[c].pc = "running"
  /\ calls[c].form = "array"
  /\ calls[c].entries[i].st = "pending"
  /\ calls' = [calls EXCEPT ![c].entries[i] =
                 [st |-> st, at |-> Cardinality(Settled(calls[c].entries)) + 1]]
  /\ UNCHANGED << variant, envVars, connVars, ctxVars, txVars, dbVars, nCalls,
                  emulatorRef, realNested, cycleActive >>

\* Promise.all(arg) has settled: the emulator continues after `await run()`.
ArraySettle(c) ==
  /\ calls[c].pc = "running"
  /\ calls[c].form = "array"
  /\ LET r == PromiseAll(calls[c].entries)
     IN /\ r.st # "pending"
        /\ IF r.st = "rejected"
             THEN CatchBlock(c, r.err, [calls EXCEPT ![c].uow = r.err])
             ELSE TryRelease(c, [calls EXCEPT ![c].uow = "results",
                                              ![c].results = r.values])
  /\ UNCHANGED << variant, envVars, connVars, ctxVars, txVars, nCalls, emulatorRef,
                  realNested, cycleActive >>

\* AfterRelease with the rollback in a `finally`: it runs after an accepted
\* RELEASE too.
AfterRelease_ThenRollback(c) ==
  /\ calls[c].pc = "awaitRelease"
  /\ CatchBlock(c, IF StmtOk(c) THEN calls[c].uow ELSE DbError, calls)
  /\ UNCHANGED << variant, envVars, connVars, ctxVars, txVars, nCalls, emulatorRef, realNested,
                  cycleActive >>

\* RELEASE SAVEPOINT has been answered: `return result`, or the refusal is
\* caught by the catch block.
AfterRelease(c) ==
  /\ calls[c].pc = "awaitRelease"
  /\ IF StmtOk(c)
       THEN /\ calls' = [calls EXCEPT ![c].pc = "done", ![c].out = calls[c].uow]
            /\ UNCHANGED dbVars
       ELSE CatchBlock(c, DbError, calls)
  /\ UNCHANGED << variant, envVars, connVars, ctxVars, txVars, nCalls, emulatorRef, realNested,
                  cycleActive >>

\* AfterRollback with a catch block that does not rethrow: the call returns
\* undefined once the rollback has been accepted.
AfterRollback_Swallowed(c) ==
  /\ calls[c].pc = "awaitRollback"
  /\ calls' = [calls EXCEPT ![c].pc = "done",
                 ![c].out = IF StmtOk(c) THEN "undefined" ELSE DbError]
  /\ UNCHANGED << variant, envVars, connVars, ctxVars, txVars, dbVars, nCalls, emulatorRef,
                  realNested, cycleActive >>

\* AfterRollback raising a new error in place of the one it caught.
AfterRollback_Wrapped(c) ==
  /\ calls[c].pc = "awaitRollback"
  /\ calls' = [calls EXCEPT ![c].pc = "done", ![c].out = "nested transaction failed"]
  /\ UNCHANGED << variant, envVars, connVars, ctxVars, txVars, dbVars, nCalls, emulatorRef,
                  realNested, cycleActive >>

\* ROLLBACK TO SAVEPOINT has been answered: `throw err`, or the refusal
\* leaves the catch block in its place.
AfterRollback(c) ==
  /\ calls[c].pc = "awaitRollback"
  /\ calls' = [calls EXCEPT ![c].pc = "done",
                 ![c].out = IF StmtOk(c) THEN calls[c].pending ELSE DbError]
  /\ UNCHANGED << variant, envVars, connVars, ctxVars, txVars, dbVars, nCalls, emulatorRef,
                  realNested, cycleActive >>

UowResults == {"value", Boom}

Next ==
  \/ setup
  \/ teardown
  \/ beginTestTransaction
  \/ \E t \in TxIds : ClientOpen(t)
  \/ \E t \in TxIds : ClientOpenFail(t)
  \/ endTestTransaction
  \/ \E t \in TxIds : ClientSettle(t)
  \/ ProxyWrite
  \/ \E p \in {0} \cup Running : ProxyTransaction(p, "callback")
  \/ \E p \in {0} \cup Running : RetainedCall(p, "callback")
  \/ \E c \in CallIds : AfterSavepoint(c)
  \/ \E c \in CallIds : UowWrite(c)
  \/ \E c \in CallIds, r \in UowResults : UowSettle(c, r)
  \/ \E c \in CallIds : AfterRelease(c)
  \/ \E c \in CallIds : AfterRollback(c)

Spec == Init /\ [][Next]_vars


\* ------------------------------------------------------------- array form

\* Nested calls of both forms between begin and end of the outer
\* transactions.  Connecting, disconnecting and writing rows are left to
\* Spec: they read and change nothing a call of the array form reads.
ArrayNext ==
  \/ beginTestTransaction
  \/ \E t \in TxIds : ClientOpen(t)
  \/ endTestTransaction
  \/ \E t \in TxIds : ClientSettle(t)
  \/ \E p \in {0} \cup Running, arg \in Args : ProxyTransaction(p, arg)
  \/ \E c \in CallIds : AfterSavepoint(c)
  \/ \E c \in CallIds, r \in UowResults : UowSettle(c, r)
  \/ \E c \in CallIds, i \in 1..MaxEntries, st \in {"fulfilled", "rejected"} :
       EntrySettle(c, i, st)
  \/ \E c \in CallIds : ArraySettle(c)
  \/ \E c \in CallIds : AfterRelease(c)
  \/ \E c \in CallIds : AfterRollback(c)

SpecArray == Init /\ [][ArrayNext]_vars

\* ------------------------------------------------------------- environment

\* The members of the object environment.setup stores in
\* global.prismaPostgresTestContext: the closure publishes the context
\* itself, the class what getPublicContext() returns.
PublicContext ==
  IF variant = "class"
    THEN {"client", "beginTestTransaction", "endTestTransaction"}
    ELSE {"client", "beginTestTransaction", "endTestTransaction", "setup", "teardown"}

\* environment.setup(global, opts) up to its first await: the check of the
\* two places a database URL can come from, then the construction of the
\* context and the call of ctx.setup() / init().
EnvironmentSetup ==
  /\ envPhase = "new"
  /\ IF ~optionsDatabaseUrl /\ ~envDatabaseUrl
       THEN /\ envPhase' = "failed"
            /\ envError' = ErrNoDatabaseUrl
            /\ UNCHANGED constructed
       ELSE /\ envPhase' = "connecting"
            /\ constructed' = TRUE
            /\ UNCHANGED envError
  /\ UNCHANGED << variant, connVars, ctxVars, txVars, dbVars, callVars, cycleActive,
                  optionsDatabaseUrl, envDatabaseUrl, published, nodeSetupCalls,
                  disconnectCalls, nodeTeardownCalls >>

\* $connect resolved: the context is stored on global and
\* builtinEnvironments.node.setup is called.
EnvironmentSetupConnected ==
  /\ envPhase = "connecting"
  /\ clientConnected' = TRUE
  /\ connected' = IF variant = "class" THEN TRUE ELSE connected
  /\ published' = PublicContext
  /\ nodeSetupCalls' = nodeSetupCalls + 1
  /\ envPhase' = "nodeSetup"
  /\ UNCHANGED << variant, ctxVars, txVars, dbVars, callVars, cycleActive,
                  optionsDatabaseUrl, envDatabaseUrl, envError, constructed,
                  disconnectCalls, nodeTeardownCalls >>

\* $connect rejected: environment.setup rejects with the client's error
\* before anything is stored on global.
EnvironmentSetupConnectFailed ==
  /\ envPhase = "connecting"
  /\ envPhase' = "failed"
  /\ envError' = DbError
  /\ UNCHANGED << variant, connVars, ctxVars, txVars, dbVars, callVars, cycleActive,
                  optionsDatabaseUrl, envDatabaseUrl, constructed, published,
                  nodeSetupCalls, disconnectCalls, nodeTeardownCalls >>

\* The node environment is set up: environment.setup returns { teardown }.
EnvironmentSetupReturn ==
  /\ envPhase = "nodeSetup"
  /\ envPhase' = "ready"
  /\ UNCHANGED << variant, connVars, ctxVars, txVars, dbVars, callVars, cycleActive,
                  optionsDatabaseUrl, envDatabaseUrl, envError, constructed, published,
                  nodeSetupCalls, disconnectCalls, nodeTeardownCalls >>

\* The returned teardown(global) up to its first await: ctx.teardown(),
\* that is originalClient.$disconnect().
EnvironmentTeardown ==
  /\ envPhase = "ready"
  /\ clientConnected' = FALSE
  /\ disconnectCalls' = disconnectCalls + 1
  /\ envPhase' = "disconnecting"
  /\ UNCHANGED << variant, connected, ctxVars, txVars, dbVars, callVars, cycleActive,
                  optionsDatabaseUrl, envDatabaseUrl, envError, constructed, published,
                  nodeSetupCalls, nodeTeardownCalls >>

\* $disconnect resolved: nodeEnvironmentTeardown(global) is called.
EnvironmentTeardownNode ==
  /\ envPhase = "disconnecting"
  /\ nodeTeardownCalls' = nodeTeardownCalls + 1
  /\ envPhase' = "done"
  /\ UNCHANGED << variant, connVars, ctxVars, txVars, dbVars, callVars, cycleActive,
                  optionsDatabaseUrl, envDatabaseUrl, envError, constructed, published,
                  nodeSetupCalls, disconnectCalls >>

\* Code of a test run reads global.prismaPostgresTestContext and calls a
\* member of it; test code runs once environment.setup has returned and
\* until the returned teardown is called.
GlobalBeginTestTransaction ==
  /\ envPhase = "ready"
  /\ "beginTestTransaction" \in published
  /\ beginTestTransaction

GlobalEndTestTransaction ==
  /\ envPhase = "ready"
  /\ "endTestTransaction" \in published
  /\ endTestTransaction

GlobalClientWrite ==
  /\ envPhase = "ready"
  /\ "client" \in published
  /\ ProxyWrite

\* The environment before setup is called, with or without a database URL
\* in the options and in process.env.
EnvInit ==
  /\ ContextInit
  /\ envPhase = "new"
  /\ optionsDatabaseUrl \in BOOLEAN
  /\ envDatabaseUrl \in BOOLEAN
  /\ envError = NoErr
  /\ constructed = FALSE
  /\ published = {}
  /\ nodeSetupCalls = 0
  /\ disconnectCalls = 0
  /\ nodeTeardownCalls = 0

EnvNext ==
  \/ EnvironmentSetup
  \/ EnvironmentSetupConnected
  \/ EnvironmentSetupConnectFailed
  \/ EnvironmentSetupReturn
  \/ GlobalBeginTestTransaction
  \/ \E t \in TxIds : ClientOpen(t)
  \/ \E t \in TxIds : ClientOpenFail(t)
  \/ GlobalClientWrite
  \/ GlobalEndTestTransaction
  \/ \E t \in TxIds : ClientSettle(t)
  \/ EnvironmentTeardown
  \/ EnvironmentTeardownNode

SpecEnv == EnvInit /\ [][EnvNext]_vars

\* ------------------------------------------------------- lifecycle driver

\* The test runner's hooks around each test of a worker: before a test the
\* hook calls beginTestTransaction() of the published context and waits for
\* its promise, after the test it calls endTestTransaction().  The runner
\* runs one hook or one test at a time, so a begin is called only when no
\* test is running and the begin before it has resolved.
HookBeforeEach ==
  /\ ~cycleActive
  /\ nBegins > 0 => beginPromise[nBegins] = "resolved"
  /\ GlobalBeginTestTransaction

\* The hook after a test: runs once the hook before it has returned.
HookAfterEach ==
  /\ cycleActive
  /\ GlobalEndTestTransaction

\* The test between the two hooks writes through the published client.
HookTestWrite ==
  /\ cycleActive
  /\ GlobalClientWrite

HooksNext ==
  \/ EnvironmentSetup
  \/ EnvironmentSetupConnected
  \/ EnvironmentSetupConnectFailed
  \/ EnvironmentSetupReturn
  \/ HookBeforeEach
  \/ \E t \in TxIds : ClientOpen(t)
  \/ \E t \in TxIds : ClientOpenFail(t)
  \/ HookTestWrite
  \/ HookAfterEach
  \/ \E t \in TxIds : ClientSettle(t)
  \/ EnvironmentTeardown
  \/ EnvironmentTeardownNode

SpecHooks == EnvInit /\ [][HooksNext]_vars

\* ================================================================== claims

Started == {c \in CallIds : calls[c].pc # "idle"}
Done == {c \in CallIds : calls[c].pc = "done"}
Kinds(c) == [i \in DOMAIN calls[c].stmts |-> calls[c].stmts[i].kind]
OnOwnSavepoint(c) ==
  \A i \in DOMAIN calls[c].stmts :
    calls[c].stmts[i].name = calls[c].name /\ calls[c].stmts[i].tx = calls[c].handle

\* C1: no row written in an outer transaction is ever committed or read by
\* another outer transaction, whatever was written (directly or inside
\* nested calls) and however the transaction ended; once the transaction
\* is rolled back none of its rows is left anywhere.
C1_RollbackTotal ==
  \A t \in written :
    /\ \A r \in committed : r[1] # t
    /\ \A u \in TxIds \ {t} : \A r \in Visible(u) : r[1] # t
    /\ txState[t] = "rolledback" => rows[t] = {}

\* C1 witness: transaction t was written in, a nested call on it returned
\* its value, t was ended and rolled back, and a later transaction is the
\* active one.
C1_Witness ==
  \E t \in written, u \in TxIds :
    /\ t < u
    /\ txState[t] = "rolledback"
    /\ \E c \in Done : calls[c].handle = t /\ calls[c].out = "value"
    /\ transactionClient = u /\ txState[u] = "open" /\ beginPromise[u] = "resolved"

\* C2 (as claimed): a beginTestTransaction call made while a handle is
\* active rejects and opens nothing: the promise of that call is rejected,
\* the client is not asked for a transaction, and the active handle and the
\* end trigger are the ones of the first transaction.
C2_BeginWhileActiveFails ==
  [][(transactionClient # Null /\ nBegins' # nBegins) =>
       /\ beginPromise'[nBegins'] = "rejected"
       /\ txState'[nBegins'] = "none"
       /\ UNCHANGED << transactionClient, internalEndTestTransaction >>]_vars

\* C3 (as claimed): at most one outer transaction has its body pending.
C3_AtMostOneOpen == Cardinality({t \in TxIds : body[t] = "pending"}) <= 1

\* C4: while no begin has resolved since the last endTestTransaction (or
\* since construction), reading any member of the proxy throws the
\* accessed-outside error.
C4_AccessOutsideThrows ==
  ~cycleActive =>
    \A m \in Members : ProxyGet(m).kind = "throw" /\ ProxyGet(m).err = ErrOutside

\* C4 witness: a transaction was ended and the next begin has been called
\* but has not resolved.
C4_Witness ==
  /\ ~cycleActive
  /\ \E t, u \in TxIds : body[t] = "rejected" /\ beginPromise[u] = "pending"

\* C5: in the step that resolves the promise of a beginTestTransaction
\* call, the transaction is open at the database, its handle is the active
\* handle and no member access on the proxy throws.
C5_ResolvedMeansReady ==
  [][\A t \in TxIds :
       (beginPromise[t] = "pending" /\ beginPromise'[t] = "resolved") =>
          /\ txState'[t] = "open"
          /\ transactionClient' = t
          /\ \A m \in Members : ProxyGet(m)'.kind # "throw"]_vars

\* C5 witness: a begin promise has resolved and its handle is active.
C5_Witness ==
  \E t \in TxIds : beginPromise[t] = "resolved" /\ transactionClient = t
                   /\ txState[t] = "open" /\ body[t] = "pending"

\* C6: an endTestTransaction step taken while a handle is active rejects
\* the pending body of the transaction of that handle and clears the
\* handle, in that one step.
C6_EndRejectsAndClears ==
  [][(transactionClient # Null /\ endTestTransaction) =>
       /\ body[transactionClient] = "pending"
       /\ body'[transactionClient] = "rejected"
       /\ transactionClient' = Null]_vars

\* C6 witness: the state endTestTransaction leaves: the body of the
\* transaction the trigger belongs to is rejected, the database has not
\* rolled it back yet, no handle is active.
C6_Witness ==
  /\ transactionClient = Null
  /\ internalEndTestTransaction # Null
  /\ body[internalEndTestTransaction] = "rejected"
  /\ txState[internalEndTestTransaction] = "open"

C9_NamesIncrease ==
  /\ \A c, d \in Started :
       (c < d /\ calls[c].name # 0 /\ calls[d].name # 0) => calls[c].name < calls[d].name
  /\ savePointCounter = Cardinality({c \in Started : calls[c].name # 0})
  /\ \A c \in Started : calls[c].name <= savePointCounter

\* C9 witness: two names allocated in two different outer transactions.
C9_Witness ==
  \E c, d \in Started :
    /\ calls[c].name # 0 /\ calls[d].name # 0
    /\ calls[c].handle # calls[d].handle
    /\ txState[calls[c].handle] = "rolledback"

\* C10: no nested call made through the proxy reaches the $transaction of
\* the real client, and while a handle is active the proxy answers
\* $transaction with the savepoint emulator.
C10_NestedNeverReal ==
  /\ realNested = 0
  /\ transactionClient # Null => ProxyGet("$transaction").kind = "emulator"

\* C10 witness: a nested call was made through the proxy while a handle was
\* active and only beginTestTransaction has called the client.
C10_Witness ==
  /\ \E c \in Started : calls[c].handle # Null
  /\ Cardinality({t \in TxIds : txState[t] # "none"}) = nBegins

\* C11: the proxy keeps no handle of its own: whenever a handle is active it
\* is the handle of an outer transaction that is open and has not been
\* ended, and every member read through the proxy is resolved against that
\* handle, in the first begin/end cycle and in every later one.
C11_ProxyFollowsActiveHandle ==
  transactionClient # Null =>
    /\ txState[transactionClient] = "open"
    /\ body[transactionClient] = "pending"
    /\ \A m \in Members \ {"$transaction"} : ProxyGet(m).target = transactionClient

\* C11 witness: the first transaction was ended and rolled back, a second
\* one is active, and the proxy resolves members against the second.
C11_Witness ==
  /\ txState[1] = "rolledback" /\ body[1] = "rejected"
  /\ transactionClient = 2
  /\ ProxyGet("meta").target = 2 /\ ProxyGet("$executeRawUnsafe").target = 2

\* C12: while a handle is active, reading a field through the proxy yields
\* the field of the active handle as stored, reading a method yields the
\* method bound to the active handle, and a write made by calling such a
\* method lands in the active transaction and in no other.
C12_MembersForwarded ==
  /\ [](transactionClient # Null =>
         /\ ProxyGet("meta") =
              [kind |-> "value", err |-> NoErr, target |-> transactionClient]
         /\ ProxyGet("$executeRawUnsafe") =
              [kind |-> "bound", err |-> NoErr, target |-> transactionClient])
  /\ [][(transactionClient # Null /\ ProxyWrite) =>
          rows' = [rows EXCEPT ![transactionClient] =
                     @ \cup {<< transactionClient, 0 >>}]]_vars

\* C12 witness: a row written through the proxy is in the active
\* transaction, which is the second one.
C12_Witness ==
  /\ transactionClient = 2
  /\ << 2, 0 >> \in rows[2]
  /\ ProxyGet("$executeRawUnsafe").kind = "bound"

\* C13: the rejection endTestTransaction raises in the body of transaction
\* t goes to the promise $transaction returned and is handled there: that
\* promise is pending or caught, never rejected without a handler, and the
\* promise beginTestTransaction returned for t stays resolved.
C13_EndSignalCaught ==
  \A t \in TxIds :
    body[t] = "rejected" =>
      /\ txPromise[t] \in {"pending", "caught"}
      /\ txState[t] = "rolledback" => txPromise[t] = "caught"
      /\ beginPromise[t] = "resolved"

\* C13 witness: a transaction was ended, the client rolled it back and the
\* rejection of its $transaction promise was caught.
C13_Witness ==
  \E t \in TxIds :
    /\ body[t] = "rejected" /\ txState[t] = "rolledback"
    /\ txPromise[t] = "caught" /\ beginPromise[t] = "resolved"

\* C14 (as claimed): when the client fails to open the outer transaction,
\* the promise beginTestTransaction returned for it is rejected: the error
\* is neither absorbed nor the promise left pending.
C14_OpenFailureRejectsBegin ==
  \A t \in TxIds : txState[t] = "failed" => beginPromise[t] = "rejected"

\* C15: endTestTransaction called while no handle is active (before the
\* first begin has resolved, or again after an end) changes nothing: the
\* handle stays null, the connection state and the savepoint counter are
\* what they were, no transaction (ended, opening or yet to be begun), no
\* row and no nested call is touched.
C15_IdleEndIsNoOp ==
  [][(transactionClient = Null /\ endTestTransaction) =>
       UNCHANGED << transactionClient, internalEndTestTransaction, connVars,
                    savePointCounter, txVars, dbVars, callVars >>]_vars

\* C15 witness: a transaction was ended, savepoint names have been handed
\* out, the next begin is waiting for the client, and no handle is active:
\* endTestTransaction called now is the second end in a row.
C15_Witness ==
  /\ transactionClient = Null
  /\ internalEndTestTransaction # Null
  /\ body[internalEndTestTransaction] = "rejected"
  /\ savePointCounter > 0
  /\ \E u \in TxIds : txState[u] = "opening"

\* C16 (as claimed): environment.setup called with no databaseUrl option
\* and no DATABASE_URL rejects with 'no DATABASE_URL defined!', and has
\* constructed no client, connected nothing and stored nothing on global.
C16_NoUrlRejects ==
  (~optionsDatabaseUrl /\ ~envDatabaseUrl /\ envPhase # "new") =>
    /\ envPhase = "failed"
    /\ envError = ErrNoDatabaseUrlExpected
    /\ ~constructed /\ ~clientConnected /\ published = {}

\* C17 (as claimed): the object stored on global by a successful
\* environment.setup has the members client, beginTestTransaction,
\* endTestTransaction, setup and teardown and is stored once the client is
\* connected; the returned teardown disconnects the client, then calls the
\* teardown of the node environment, each once.
C17_PublishedContext ==
  /\ published # {} =>
       /\ published = {"client", "beginTestTransaction", "endTestTransaction",
                       "setup", "teardown"}
       /\ envPhase \in {"nodeSetup", "ready"} => clientConnected
  /\ envPhase \in {"new", "connecting", "failed"} => published = {}
  /\ nodeTeardownCalls <= disconnectCalls /\ disconnectCalls <= 1
  /\ envPhase = "done" => disconnectCalls = 1 /\ nodeTeardownCalls = 1

\* The array-form calls that have issued a statement after their SAVEPOINT.
ArrayClosing ==
  {c \in Started : calls[c].form = "array" /\ Len(calls[c].stmts) >= 2}

\* C20 (as claimed): an array-form call issues RELEASE SAVEPOINT or
\* ROLLBACK TO SAVEPOINT only when every entry has settled; it fails with
\* the first rejection when an entry rejected and otherwise returns the
\* values in the order of the array.
C20_ArrayWaitsForAll ==
  \A c \in ArrayClosing :
    LET es == calls[c].entries
    IN /\ Settled(es) = DOMAIN es
       /\ calls[c].pc = "done" =>
            IF Rejected(es) # {}
              THEN calls[c].out = EntryError(FirstRejected(es))
              ELSE /\ calls[c].out = "results"
                   /\ calls[c].results = [i \in DOMAIN es |-> EntryValue(i)]

\* C20 (amended): an array-form call issues RELEASE SAVEPOINT only when
\* every entry has fulfilled and then holds the values in the order of the
\* array; it issues ROLLBACK TO SAVEPOINT in place of RELEASE only when an
\* entry has rejected, whether or not the others have settled; when the
\* database accepts the statement the call returns those values, or fails
\* with the reason of the entry that rejected first.
C20_ArrayFirstRejectionWins ==
  \A c \in ArrayClosing :
    LET es == calls[c].entries
        close == calls[c].stmts[2]
        last == calls[c].stmts[Len(calls[c].stmts)]
    IN /\ close.kind = "RELEASE SAVEPOINT" =>
            /\ \A i \in DOMAIN es : es[i].st = "fulfilled"
            /\ calls[c].uow = "results"
            /\ calls[c].results = [i \in DOMAIN es |-> EntryValue(i)]
       /\ close.kind = "ROLLBACK TO SAVEPOINT" =>
            /\ Rejected(es) # {}
            /\ calls[c].uow = EntryError(FirstRejected(es))
       /\ (calls[c].pc = "done" /\ last.ok) =>
            /\ calls[c].out = calls[c].uow
            /\ Len(calls[c].stmts) = 2

\* C20 witness: an array-form call has failed with the reason of the entry
\* that rejected, after an accepted ROLLBACK TO SAVEPOINT, while another
\* entry of the array is still pending.
C20_Witness ==
  \E c \in ArrayClosing :
    /\ calls[c].pc = "done"
    /\ calls[c].stmts[2].kind = "ROLLBACK TO SAVEPOINT" /\ calls[c].stmts[2].ok
    /\ \E i \in DOMAIN calls[c].entries : calls[c].entries[i].st = "pending"
    /\ calls[c].out = EntryError(FirstRejected(calls[c].entries))

\* C18 (as claimed): in a recursive nesting the inner call has issued its
\* RELEASE SAVEPOINT or ROLLBACK TO SAVEPOINT, and has returned, before the
\* enclosing call issues its own.
C18_ReverseOrder ==
  \A c, d \in Started :
    (calls[d].parent = c /\ calls[d].name # 0 /\ Len(calls[c].stmts) >= 2) =>
      /\ calls[d].pc = "done"
      /\ Len(calls[d].stmts) >= 2

\* The rows unit of work c wrote that some transaction still holds.
RowsOf(c) == {r \in UNION {rows[t] : t \in TxIds} : r[2] = c}

\* Call c issues a statement of this kind in the step and the database
\* accepts it.
Accepts(c, kind) ==
  /\ Len(calls'[c].stmts) = Len(calls[c].stmts) + 1
  /\ calls'[c].stmts[Len(calls'[c].stmts)].kind = kind
  /\ calls'[c].stmts[Len(calls'[c].stmts)].ok

C21_InactiveEmulatorFails ==
  /\ [][(transactionClient = Null /\ nCalls' = nCalls + 1) =>
          /\ calls'[nCalls'].pc = "done"
          /\ calls'[nCalls'].out = ErrNestedInactive
          /\ calls'[nCalls'].stmts = << >>
          /\ calls'[nCalls'].uowHandle = Null
          /\ UNCHANGED << savePointCounter, dbVars >>]_vars
  /\ [](\A c \in Started :
          calls[c].out = ErrNestedInactive =>
            /\ calls[c].pc = "done" /\ calls[c].name = 0
            /\ calls[c].stmts = << >> /\ ~calls[c].wrote)

\* C21 witness: a savepoint name was handed out during a transaction, the
\* transaction was ended, and a call made afterwards through the retained
\* function has failed with the error.
C21_Witness ==
  /\ transactionClient = Null
  /\ savePointCounter > 0
  /\ \E t \in TxIds : body[t] = "rejected"
  /\ \E c \in Done : calls[c].out = ErrNestedInactive /\ calls[c].stmts = << >>

C23_TeardownClearsHandle ==
  [][teardown =>
       /\ ~clientConnected'
       /\ transactionClient' = Null
       /\ ProxyGet("user")'.kind = "throw"]_vars

\* C24: once setup has completed, neither beginTestTransaction nor
\* endTestTransaction connects or disconnects the client: the connection
\* made by setup is still open after any number of begin/end cycles, and
\* only teardown closes it.
C24_CyclesKeepConnection ==
  /\ [][(clientConnected /\ (beginTestTransaction \/ endTestTransaction)) =>
          UNCHANGED connVars]_vars
  /\ [][(clientConnected /\ ~clientConnected') => teardown]_vars

C24_Witness ==
  /\ clientConnected
  /\ nBegins = MaxTx
  /\ txState[1] = "rolledback"
  /\ body[MaxTx] = "rejected"

\* C25: the outer transaction is never committed: its body never resolves,
\* it settles only by the rejection that endTestTransaction triggers, and
\* the client therefore only ever rolls it back, in every interleaving.
C25_OuterNeverCommitted ==
  /\ [](\A t \in TxIds :
          /\ body[t] # "resolved"
          /\ txState[t] # "committed"
          /\ txPromise[t] # "resolved")
  /\ [](committed = {})
  /\ [][\A t \in TxIds :
          (body[t] # body'[t]) =>
             \/ body'[t] = "pending" /\ ClientOpen(t)
             \/ body[t] = "pending" /\ body'[t] = "rejected" /\ endTestTransaction]_vars

C25_Witness ==
  \E t \in TxIds :
    /\ txState[t] = "rolledback"
    /\ body[t] = "rejected"
    /\ t \in written
    /\ rows[t] = {}

\* C26: whenever the handle is set, the stored end trigger belongs to the
\* same outer transaction as the handle; one endTestTransaction therefore
\* rejects the body of exactly the transaction that owns the handle, clears
\* that handle, and touches the body of no other transaction.
C26_TriggerOwnsHandle ==
  /\ [](transactionClient # Null =>
          /\ internalEndTestTransaction = transactionClient
          /\ txState[transactionClient] = "open"
          /\ body[transactionClient] = "pending")
  /\ [][(transactionClient # Null /\ endTestTransaction) =>
          /\ body'[transactionClient] = "rejected"
          /\ transactionClient' = Null
          /\ \A u \in TxIds \ {transactionClient} : body'[u] = body[u]]_vars

C26_Witness ==
  /\ transactionClient = Null
  /\ internalEndTestTransaction = 2
  /\ body[2] = "rejected"
  /\ txState[1] = "open" /\ body[1] = "pending"

\* The statements of call c after its SAVEPOINT.
Closing(c) == SubSeq(calls[c].stmts, 2, Len(calls[c].stmts))

C28_EndLeavesNoOpenTransaction ==
  [][(endTestTransaction /\ \A t \in TxIds : txState[t] # "opening") =>
       \A t \in TxIds : ~(txState'[t] = "open" /\ body'[t] = "pending")]_vars

====
